---- MODULE Spec2Model ----
(***************************************************************************)
(* A model of content_profiler: the retrying HTTP wrapper (http.py), the   *)
(* scraper's URL handling (scraper.py), the source truncation of the       *)
(* synthesizer (openai_synth.py), the pipeline orchestrator (pipeline.py)  *)
(* and the bulk driver and its business search (bulk.py).                  *)
(*                                                                         *)
(* Python strings are TLA+ strings; None and the empty string, which the   *)
(* code only ever tests by truthiness, are both "".                        *)
(***************************************************************************)
EXTENDS Integers, Sequences, FiniteSets, TLC

VARIABLES
    \* ---- http.py: one call of get_json / get_text under tenacity's @retry
    hpc,             \* "idle" | "call" | "wait" | "returned" | "raised"
    hfn,             \* "get_json" | "get_text"
    attempt_number,  \* tenacity's attempt counter, from 1
    responses,       \* what requests.get produced on each attempt so far
    houtcome         \* the value returned, or the exception raised, to the caller

VARIABLES
    \* ---- the world one run_pipeline call meets
    serp,            \* what the search API answers for the query
    site,            \* which website is behind the primary URL
    places_api,      \* how the places API answers
    psi_api,         \* how the page-speed API answers
    llm,             \* what the chat completion call does
    \* ---- pipeline.py: one call of run_pipeline(query, out_dir)
    ppc,             \* position in run_pipeline
    cse_items, primary_url, places, place_details,
    scraped_pages, internal_links, social_links, social_profiles,
    li,              \* index into internal_links[:12] of the link fetched next
    psi, sources, profile, summary,
    raisedBy,        \* the call whose exception ended the run ("" while none did)
    fetch_failures,  \* how many link fetches have failed so far in this run
    assembled,       \* the source bundle as it was when line 105 built it
    psi_calls,       \* how many clients.pagespeed calls this run has made
    \* ---- the output directory tree: slug -> file name -> what was written
    fs

VARIABLES
    \* ---- bulk.py: one call of run_bulk(zip_code, genre, out_base)
    bpc,             \* "pipeline" | "ideas" | "sleep" | "done"
    found,           \* what find_businesses returned
    idx,             \* enumerate(found, start=1)
    res,             \* what run_pipeline returned for the current business
    results,
    attempted,       \* the businesses run_pipeline was called for, in call order
    succeeded,       \* the businesses run_pipeline returned for, in call order
    sleeps           \* how many time.sleep(1) calls have been made

VARIABLES
    \* ---- bulk.py: one call of find_businesses(zip_code, genre, target_count)
    fpc,             \* "geocode" | "round" | "page" | "returned" | "raised"
    geo,             \* how the geocoder answers
    feed,            \* what the next places_nearby calls answer, one page per call
    after,           \* what every places_nearby call answers once feed is used up
    businesses, radius, tried_radii, pagetoken,
    unique,          \* the list find_businesses returns
    radii,           \* the radius of each round so far
    served,          \* every entry places_nearby has answered so far, in order
    naps             \* the number of time.sleep(2) calls made so far, modulo 2

httpVars == <<hpc, hfn, attempt_number, responses, houtcome>>
worldVars == <<serp, site, places_api, psi_api, llm>>
pipeVars == <<psi_calls, ppc, cse_items, primary_url, places, place_details, scraped_pages,
              internal_links, social_links, social_profiles, li, psi, sources,
              profile, summary, raisedBy, fetch_failures, assembled>>
bulkVars == <<bpc, found, idx, res, results, attempted, succeeded, sleeps>>

findVars == <<fpc, geo, feed, after, businesses, radius, tried_radii, pagetoken, unique,
              radii, served, naps>>

vars == <<httpVars, worldVars, pipeVars, bulkVars, findVars, fs>>

(***************************************************************************)
(* Strings                                                                 *)
(***************************************************************************)
Min(a, b) == IF a <= b THEN a ELSE b
Max(a, b) == IF a >= b THEN a ELSE b

Least(S) == CHOOSE i \in S : \A j \in S : i <= j
Greatest(S) == CHOOSE i \in S : \A j \in S : j <= i
LeastOr(S, none) == IF S = {} THEN none ELSE Least(S)

\* str.startswith, str.endswith
StartsWith(s, p) == Len(s) >= Len(p) /\ SubSeq(s, 1, Len(p)) = p
EndsWith(s, p) == Len(s) >= Len(p) /\ SubSeq(s, Len(s) - Len(p) + 1, Len(s)) = p

\* Python's `p in s` on strings
Contains(s, p) ==
    \E i \in 1..(Len(s) - Len(p) + 1) : SubSeq(s, i, i + Len(p) - 1) = p

\* The first position (1-based) at or after `from` where p occurs in s; 0 if none
Find(s, p, from) ==
    LeastOr({i \in from..(Len(s) - Len(p) + 1) : SubSeq(s, i, i + Len(p) - 1) = p}, 0)

\* The first position at or after `from` of a character of `chars`; Len(s)+1 if none
FirstOf(s, chars, from) ==
    LeastOr({i \in from..Len(s) : SubSeq(s, i, i) \in chars}, Len(s) + 1)

\* str.rstrip('/')
RStripSlash(s) ==
    SubSeq(s, 1, Greatest({n \in 0..Len(s) : n = 0 \/ SubSeq(s, n, n) # "/"}))

(***************************************************************************)
(* scraper.py                                                              *)
(***************************************************************************)
\* urllib.parse.urlparse, for URLs of the forms  scheme://netloc/path?query#fragment
\* and  path?query#fragment.  `from` is where the path starts.
ParsePath(url, scheme, netloc, from) ==
    [scheme |-> scheme, netloc |-> netloc,
     path |-> SubSeq(url, from, FirstOf(url, {"?", "#"}, from) - 1)]

ParseAuthority(url, scheme, start, end) ==
    ParsePath(url, scheme, SubSeq(url, start, end - 1), end)

\* c is the position of "://" in url, 0 if it has none
ParseFrom(url, c) ==
    IF c > 1
        THEN ParseAuthority(url, SubSeq(url, 1, c - 1), c + 3,
                            FirstOf(url, {"/", "?", "#"}, c + 3))
        ELSE ParsePath(url, "", "", 1)

UrlParse(url) == ParseFrom(url, Find(url, "://", 1))

\* normalize_url, lines 13-18: default scheme https, path without trailing
\* slashes; query and fragment are not part of the result
Unparse(parsed) ==
    (IF parsed.scheme # "" THEN parsed.scheme ELSE "https")
        \o "://" \o parsed.netloc \o RStripSlash(parsed.path)

NormalizeUrl(url) == Unparse(UrlParse(url))

\* The public suffixes tldextract knows, as far as the modelled hosts need them
PublicSuffixes == {"com", "org", "co.uk"}

\* The text after the last '.' of s (all of s when it has none)
LastLabel(s) ==
    SubSeq(s, Greatest({i \in 0..Len(s) : i = 0 \/ SubSeq(s, i, i) = "."}) + 1, Len(s))

\* The host a URL names, with or without a scheme
HostFrom(url, start) == SubSeq(url, start, FirstOf(url, {"/", "?", "#"}, start) - 1)
HostAfter(url, c) == HostFrom(url, IF c > 1 THEN c + 3 ELSE 1)
HostOf(url) == HostAfter(url, Find(url, "://", 1))

\* The longest of a non-empty set of strings
Longest(S) == CHOOSE s \in S : \A t \in S : Len(t) <= Len(s)

\* host = <subdomain>.<domain>.<suf>: <domain>.<suf>, or <suf> alone
JoinDomain(pre, suf) == IF pre = "" THEN suf ELSE LastLabel(pre) \o "." \o suf
DomainWithSuffix(host, suf) ==
    JoinDomain(SubSeq(host, 1, Max(0, Len(host) - Len(suf) - 1)), suf)

DomainAmong(host, sufs) ==
    IF host = "" THEN ""
    ELSE IF sufs = {} THEN LastLabel(host)
    ELSE DomainWithSuffix(host, Longest(sufs))

RegisteredDomain(host) ==
    DomainAmong(host, {s \in PublicSuffixes : host = s \/ EndsWith(host, "." \o s)})

\* extract_domain, lines 20-22: tldextract's domain and suffix joined by '.',
\* the empty parts left out
ExtractDomain(url) == RegisteredDomain(HostOf(url))

\* list(dict.fromkeys(links)): the first occurrence of each element, in order
NthOf(S, k) == CHOOSE i \in S : Cardinality({j \in S : j <= i}) = k
Pick(seq, at) == [k \in 1..Cardinality(at) |-> seq[NthOf(at, k)]]
Dedup(seq) == Pick(seq, {i \in 1..Len(seq) : \A j \in 1..(i - 1) : seq[j] # seq[i]})

\* extract_links, lines 25-37, on one anchor: the link it yields, "" if none
Resolve(href, base) == base.scheme \o "://" \o base.netloc \o href
LinkOf(href, base) ==
    IF StartsWith(href, "#") \/ StartsWith(href, "mailto:") \/ StartsWith(href, "tel:")
        THEN ""
    ELSE IF StartsWith(href, "http") THEN href
    ELSE IF StartsWith(href, "/") THEN Resolve(href, base)
    ELSE ""

NonEmpty(seq) == SelectSeq(seq, LAMBDA x : x # "")
LinksOf(hrefs, base) == NonEmpty([i \in 1..Len(hrefs) |-> LinkOf(hrefs[i], base)])

\* extract_links: html is the sequence of the href values of the page's anchors
ExtractLinks(html, base_url) == Dedup(LinksOf(html, UrlParse(base_url)))

(***************************************************************************)
(* openai_synth.py                                                         *)
(***************************************************************************)
\* A long Python string: the first `keep` characters of document `doc`
\* followed by the literal string `tail`.
Text(doc, n) == [doc |-> doc, keep |-> n, tail |-> ""]
TextLen(t) == t.keep + Len(t.tail)

\* t[:n]
Slice(t, n) ==
    IF n >= TextLen(t) THEN t
    ELSE IF n <= t.keep THEN [t EXCEPT !.keep = n, !.tail = ""]
    ELSE [t EXCEPT !.tail = SubSeq(t.tail, 1, n - t.keep)]

\* t + s
Concat(t, s) == [t EXCEPT !.tail = t.tail \o s]

PageTextLimit == 8000
SnippetLimit == 500

\* lines 32-34: the page's text cut to 8000 characters plus a marker
TruncatePage(page) ==
    IF TextLen(page.text) > PageTextLimit
        THEN [page EXCEPT !.text = Concat(Slice(page.text, PageTextLimit), "... [truncated]")]
        ELSE page

\* lines 38-40: the item's snippet cut to 500 characters plus '...'
TruncateItem(item) ==
    IF TextLen(item.snippet) > SnippetLimit
        THEN [item EXCEPT !.snippet = Concat(Slice(item.snippet, SnippetLimit), "...")]
        ELSE item

\* lines 43-45: a PageSpeed report is replaced by a one-line summary
TruncatePagespeed(p) == IF p = "lighthouseResult" THEN "summary" ELSE p

\* truncate_sources.  `truncated = sources.copy()` copies the top-level dict
\* only: truncated['scraped'] and truncated['cse'] are the caller's own lists
\* of the caller's own page and item dicts, so the assignments to page['text']
\* and item['snippet'] land in the caller's bundle as well; the assignment to
\* truncated['pagespeed'] rebinds a key of the copy and does not.  The result
\* is the pair (the caller's bundle after the call, the returned copy).
TruncateSources(src) ==
    LET scraped == [i \in DOMAIN src.scraped |-> TruncatePage(src.scraped[i])]
        cse     == [i \in DOMAIN src.cse |-> TruncateItem(src.cse[i])]
    IN  [caller |-> [src EXCEPT !.scraped = scraped, !.cse = cse],
         truncated |-> [src EXCEPT !.scraped = scraped, !.cse = cse,
                                   !.pagespeed = TruncatePagespeed(src.pagespeed)]]

\* What the language model can answer, as far as the pipeline reads it:
\* organization.name, organization.url, team, products ("" and <<>> when absent)
Profiles ==
    {[name |-> n, url |-> u, team |-> t, products |-> <<>>] :
        n \in {"", "Acme Dental"}, u \in {"", "https://www.acme.com/"},
        t \in {<<>>, <<"Dr. A">>}}

\* render_markdown_outputs: the names of the files it returns
RenderMarkdownOutputs(prof) ==
    {"about.md", "services.md", "faqs.md", "homepage-hero.md"}
        \cup (IF prof.team # <<>> THEN {"team.md"} ELSE {})
        \cup (IF prof.products # <<>> THEN {"products.md"} ELSE {})

(***************************************************************************)
(* http.py                                                                 *)
(***************************************************************************)
\* What one requests.get can produce: a response with a status and a body,
\* or a transport-level exception raised by requests itself.
Responses ==
    {[kind |-> "response", status |-> 200, body |-> "[1]"],
     [kind |-> "response", status |-> 200, body |-> "[2]"],
     [kind |-> "response", status |-> 200, body |-> "<html>"],
     [kind |-> "response", status |-> 404, body |-> "not found"],
     [kind |-> "response", status |-> 500, body |-> "oops"],
     [kind |-> "response", status |-> 503, body |-> "busy"],
     [kind |-> "ConnectionError", status |-> 0, body |-> ""],
     [kind |-> "Timeout", status |-> 0, body |-> ""]}

Returned(v) == [exc |-> "none", value |-> v]
Raised(e)   == [exc |-> e, value |-> <<>>]

\* resp.json(): the decoded body, or a decode error
RespJson(body) ==
    CASE body = "[1]" -> Returned(<<1>>)
      [] body = "[2]" -> Returned(<<2>>)
      [] OTHER        -> Raised("JSONDecodeError")

\* resp.raise_for_status(): requests.HTTPError for 4xx and 5xx
RaiseForStatus(status) == status >= 400 /\ status < 600

\* The body of get_json / get_text applied to what requests.get produced.
CallBody(fn, r) ==
    IF r.kind # "response" THEN Raised(r.kind)
    ELSE IF r.status >= 500 THEN Raised("HttpError")
    ELSE IF RaiseForStatus(r.status) THEN Raised("HTTPError")
    ELSE IF fn = "get_json" THEN RespJson(r.body)
    ELSE Returned(r.body)

\* stop=stop_after_attempt(4)
StopAfterAttempt == 4

\* retry=retry_if_exception_type(HttpError)
RetryAllExceptions(exc) == TRUE
RetryIf(exc) == exc = "HttpError"

\* tenacity's decision after an attempt that raised `exc`
ShouldRetry(exc, n) == RetryIf(exc) /\ n < StopAfterAttempt

HttpIdle ==
    /\ hpc = "idle"
    /\ hfn = "get_json"
    /\ attempt_number = 0
    /\ responses = <<>>
    /\ houtcome = Returned(<<>>)

\* A caller invokes get_json or get_text.
HttpCall ==
    /\ hpc = "idle"
    /\ \E fn \in {"get_json", "get_text"} : hfn' = fn
    /\ hpc' = "call"
    /\ attempt_number' = 1
    /\ UNCHANGED <<responses, houtcome>>
    /\ UNCHANGED <<worldVars, pipeVars, bulkVars, findVars, fs>>

\* One attempt: requests.get answers r and the function body runs on it.
HttpAttempt ==
    /\ hpc = "call"
    /\ \E r \in Responses :
        LET out == CallBody(hfn, r) IN
        /\ responses' = Append(responses, r)
        /\ houtcome' = out
        /\ hpc' = IF out.exc = "none" THEN "returned"
                  ELSE IF ShouldRetry(out.exc, attempt_number) THEN "wait"
                  ELSE "raised"
    /\ UNCHANGED <<hfn, attempt_number>>
    /\ UNCHANGED <<worldVars, pipeVars, bulkVars, findVars, fs>>

\* wait=wait_exponential(...): sleep, then the next attempt
HttpBackoff ==
    /\ hpc = "wait"
    /\ attempt_number' = attempt_number + 1
    /\ hpc' = "call"
    /\ UNCHANGED <<hfn, responses, houtcome>>
    /\ UNCHANGED <<worldVars, pipeVars, bulkVars, findVars, fs>>

HttpNext == HttpCall \/ HttpAttempt \/ HttpBackoff

(***************************************************************************)
(* The world of one pipeline run: search results and a website             *)
(***************************************************************************)
Query == "Acme Dental 78701"
Home == "https://www.acme.com/"

\* A search result: its link ("" when the item carries none) and a snippet
\* of n characters
Item(link, n) == [link |-> link, snippet |-> Text(link, n)]

\* The most internal links a home page of the "many" shape carries
MaxLinks == 13
\* The most link fetches that fail in one run
MaxFailures == 2
\* The most results one search answers with in SpecPrimary
MaxCse == 3

\* The anchors of a home page that mixes internal, social and other links,
\* several of which normalize to one URL
MixedHrefs ==
    <<"/", "#top", "/about", "/about/", "mailto:hi@acme.com",
      "https://www.facebook.com/acme", "/about#team", "https://www.youtube.com/@acme",
      "https://partner.org/acme", "tel:+15125550100", "https://blog.acme.com/news",
      "contact.html", "/about">>

MixedSite == [shape |-> "mixed", n |-> 0]
ManySites == {[shape |-> "many", n |-> k] : k \in 0..MaxLinks}

\* The href values of the anchors of the page at (normalized) url
WebHtml(url, st) ==
    IF url # NormalizeUrl(Home) THEN <<"/">>
    ELSE IF st.shape = "many" THEN [k \in 1..st.n |-> "/p" \o ToString(k)]
    ELSE MixedHrefs

\* What trafilatura extracts from a page, by the page's path
TextAt(url, path) ==
    CASE path = "/p1"    -> Text(url, 9000)
      [] path = "/p2"    -> Text(url, 8000)
      [] path = "/p3"    -> Text(url, 0)
      [] path = "/about" -> Text(url, 8001)
      [] OTHER           -> Text(url, 300)

WebText(url) == TextAt(url, UrlParse(url).path)

\* The links search results carry in SpecPrimary
CseLinks ==
    {Home, "https://www.facebook.com/acme", "https://www.youtube.com/@acme",
     "https://www.netflix.com/title/1", "https://www.yelp.com/biz/acme", ""}

\* The sequences over S of length n
RECURSIVE SeqsOfLen(_, _)
SeqsOfLen(S, n) ==
    IF n = 0 THEN {<<>>}
    ELSE {Append(q, x) : q \in SeqsOfLen(S, n - 1), x \in S}

AllSerps == UNION {SeqsOfLen({Item(l, 100) : l \in CseLinks}, n) : n \in 0..MaxCse}

\* The search answers of the full pipeline runs
SocialThenHome == <<Item("https://www.facebook.com/acme", 501), Item(Home, 500)>>
PipelineSerps == {<<>>, SocialThenHome}

DefaultProfile == [name |-> "Acme Dental", url |-> Home, team |-> <<>>, products |-> <<>>]

\* The profile `{}`: every key the pipeline reads is absent
EmptyProfile == [name |-> "", url |-> "", team |-> <<>>, products |-> <<>>]

\* What client.chat.completions.create can do: answer with a message whose
\* content is the JSON text of a profile, is empty (None or ''), or is text
\* that is not JSON; or raise
JsonContent(prof) == [kind |-> "json", value |-> prof]
EmptyContent == [kind |-> "empty", value |-> EmptyProfile]
ProseContent == [kind |-> "prose", value |-> EmptyProfile]
ApiError == [kind |-> "APIError", value |-> EmptyProfile]
Completions == {JsonContent(prof) : prof \in Profiles} \cup {EmptyContent, ProseContent, ApiError}

\* orjson.loads(content)
OrjsonLoads(content) ==
    IF content.kind = "json" THEN Returned(content.value) ELSE Raised("JSONDecodeError")

\* line 66: orjson.loads(content) if content else {}
LoadsIfContent(content) ==
    IF content.kind # "empty" THEN OrjsonLoads(content) ELSE Returned(EmptyProfile)

\* synthesize_profile, lines 59-66, on what the completion call does
SynthesizeProfile(completion) ==
    IF completion.kind = "APIError" THEN Raised("APIError") ELSE LoadsIfContent(completion)

(***************************************************************************)
(* scraper.py: extract_text                                                *)
(***************************************************************************)
PageAt(u, st) == [url |-> u, text |-> WebText(u), links |-> ExtractLinks(WebHtml(u, st), u)]

\* extract_text, lines 40-45, when get_text succeeds
ExtractText(url, st) == PageAt(NormalizeUrl(url), st)

(***************************************************************************)
(* pipeline.py                                                             *)
(***************************************************************************)
\* slugify, lines 15-18: lower-case, every run of characters outside a-z0-9
\* becomes one hyphen, hyphens at either end are dropped
UpperCase == "ABCDEFGHIJKLMNOPQRSTUVWXYZ"
LowerCase == "abcdefghijklmnopqrstuvwxyz"
Digits == "0123456789"

LowerAt(c, i) == IF i > 0 THEN SubSeq(LowerCase, i, i) ELSE c
ToLower(c) == LowerAt(c, Find(UpperCase, c, 1))

HyphenStep(init, c) ==
    IF Contains(LowerCase \o Digits, c) THEN init \o c
    ELSE IF EndsWith(init, "-") THEN init
    ELSE init \o "-"

RECURSIVE Hyphenate(_)
Hyphenate(text) ==
    IF text = "" THEN ""
    ELSE HyphenStep(Hyphenate(SubSeq(text, 1, Len(text) - 1)),
                    ToLower(SubSeq(text, Len(text), Len(text))))

StripHyphens(h) ==
    SubSeq(h, IF StartsWith(h, "-") THEN 2 ELSE 1,
              IF EndsWith(h, "-") THEN Len(h) - 1 ELSE Len(h))

Slugify(text) == StripHyphens(Hyphenate(text))

\* line 35: the domains the choice of the primary URL passes over
PrimarySkipped ==
    {"facebook.com", "instagram.com", "linkedin.com", "x.com", "twitter.com", "yelp.com"}

\* line 71: the domains whose links count as social profiles
SocialPlatforms ==
    {"facebook.com", "instagram.com", "linkedin.com", "twitter.com", "x.com",
     "youtube.com", "tiktok.com"}

\* lines 33-35: whether the loop stops at an item whose link has domain dom
\* (dom is '' for an item without a link)
IsOfficialDomain(dom) == dom # "" /\ ~\E s \in PrimarySkipped : Contains(dom, s)
IsOfficial(item) == IsOfficialDomain(IF item.link # "" THEN ExtractDomain(item.link) ELSE "")

\* lines 29-38
PickAmong(items, official) ==
    IF items = <<>> THEN ""
    ELSE IF official # {} THEN items[Least(official)].link
    ELSE items[1].link

PickPrimary(items) == PickAmong(items, {i \in 1..Len(items) : IsOfficial(items[i])})

\* lines 65-72
IsInternalDomain(dom, primaryDom) == dom = primaryDom
IsSocialDomain(dom, primaryDom) ==
    dom # primaryDom /\ \E s \in SocialPlatforms : Contains(dom, s)

InternalLinks(links, primary) ==
    SelectSeq(links, LAMBDA l : IsInternalDomain(ExtractDomain(l), ExtractDomain(primary)))
SocialLinks(links, primary) ==
    SelectSeq(links, LAMBDA l : IsSocialDomain(ExtractDomain(l), ExtractDomain(primary)))

\* line 76: internal_links[:12]
LinkSlice == 12
\* line 84: len(scraped_pages) >= 12
MaxPages == 12
\* line 89: social_links[:5]
SocialSlice == 5

LinksToScrape(links) == SubSeq(links, 1, Min(LinkSlice, Len(links)))

\* line 84
PagesFullOffByOne(n) == n > MaxPages
PagesFull(n) == n >= MaxPages

\* lines 89-94
SocialProfiles(links) ==
    [i \in 1..Min(SocialSlice, Len(links)) |->
        [url |-> links[i], platform |-> ExtractDomain(links[i])]]

\* lines 105-118
Assemble(items, primary, pl, details, ps, pages, socials) ==
    [query |-> Query, cse |-> items, primaryUrl |-> primary, places |-> pl,
     placeDetails |-> details, pagespeed |-> ps, scraped |-> pages,
     socialProfiles |-> socials,
     scrapingStats |-> [totalPagesScraped |-> Len(pages),
                        socialProfilesFound |-> Len(socials)]]

\* line 126: the output directory under out_dir
OutputSlug(prof, query) == Slugify(IF prof.name # "" THEN prof.name ELSE query)

\* line 144: the @id of the Organization node
OrgUrlOr(orgUrl, primary) == IF orgUrl # "" THEN orgUrl ELSE primary
OrgGraphId(prof, primary) ==
    (IF primary # "" THEN OrgUrlOr(RStripSlash(prof.url), RStripSlash(primary)) ELSE "")
        \o "#organization"

\* A file's content: the run that wrote it and what it wrote
Blob(run, data) == [run |-> run, data |-> data]

\* lines 130-155: the files one run writes, by name relative to its directory
PipelineFiles(run, src, prof, primary) ==
    ("sources.json" :> Blob(run, src))
        @@ ("profile.json" :> Blob(run, prof))
        @@ ("training.json" :> Blob(run, "training"))
        @@ [f \in {"content/" \o m : m \in RenderMarkdownOutputs(prof)} |->
                Blob(run, "markdown")]
        @@ ("jsonld/organization.jsonld" :> Blob(run, OrgGraphId(prof, primary)))

\* write_bytes / write_text of each of `files` under directory `base`: a file of
\* the same name is replaced, every other file of the directory stays
Overwrite(old, files) == files @@ old
WriteFiles(tree, base, files) ==
    (base :> Overwrite(IF base \in DOMAIN tree THEN tree[base] ELSE <<>>, files)) @@ tree

NoValue == <<>>

PipeIdle ==
    /\ ppc = "search"
    /\ cse_items = <<>>
    /\ primary_url = ""
    /\ places = "{}"
    /\ place_details = "{}"
    /\ scraped_pages = <<>>
    /\ internal_links = <<>>
    /\ social_links = <<>>
    /\ social_profiles = <<>>
    /\ li = 0
    /\ psi = "{}"
    /\ sources = NoValue
    /\ profile = NoValue
    /\ summary = NoValue
    /\ raisedBy = ""
    /\ fetch_failures = 0
    /\ assembled = NoValue
    /\ psi_calls = 0

\* An exception leaves run_pipeline
Abort(by) ==
    /\ ppc' = "raised"
    /\ raisedBy' = by

\* lines 28-38: the search, which is under no try, and the choice of the primary URL
Search ==
    /\ ppc = "search"
    /\ \/ /\ cse_items' = serp
          /\ primary_url' = PickPrimary(serp)
          /\ ppc' = "places"
          /\ UNCHANGED raisedBy
       \/ /\ Abort("search")
          /\ UNCHANGED <<cse_items, primary_url>>
    /\ UNCHANGED <<places, place_details, scraped_pages, internal_links, social_links,
                   social_profiles, li, psi, sources, profile, summary,
                   fetch_failures, assembled>>
    /\ UNCHANGED <<psi_calls, httpVars, worldVars, bulkVars, findVars, fs>>

\* lines 41-50: places text search and details, any failure recorded and passed over
Places ==
    /\ ppc = "places"
    /\ places' = places_api
    /\ place_details' = IF places_api = "results" THEN "details" ELSE "{}"
    /\ ppc' = "scrape"
    /\ UNCHANGED <<cse_items, primary_url, scraped_pages, internal_links, social_links,
                   social_profiles, li, psi, sources, profile, summary, raisedBy,
                   fetch_failures, assembled>>
    /\ UNCHANGED <<psi_calls, httpVars, worldVars, bulkVars, findVars, fs>>

\* lines 59-94 once the primary page is fetched: its links are sorted into
\* internal and social ones; with no internal link the loop of line 76 is over
\* at once and the social profile stubs are collected
PrimaryScraped(first, internal, social) ==
    /\ scraped_pages' = <<first>>
    /\ internal_links' = internal
    /\ social_links' = social
    /\ IF internal = <<>>
          THEN /\ social_profiles' = SocialProfiles(social)
               /\ ppc' = "pagespeed"
               /\ li' = li
          ELSE /\ social_profiles' = social_profiles
               /\ ppc' = "links"
               /\ li' = 1

PrimaryFetched(first) ==
    PrimaryScraped(first, InternalLinks(first.links, primary_url),
                   SocialLinks(first.links, primary_url))

\* lines 56-72: the primary page is fetched, under no try
ScrapePrimary ==
    /\ ppc = "scrape"
    /\ primary_url # ""
    /\ \/ /\ PrimaryFetched(ExtractText(primary_url, site))
          /\ UNCHANGED raisedBy
       \/ /\ Abort("extract_text")
          /\ UNCHANGED <<scraped_pages, internal_links, social_links, social_profiles, li>>
    /\ UNCHANGED <<cse_items, primary_url, places, place_details, psi, sources, profile,
                   summary, fetch_failures, assembled>>
    /\ UNCHANGED <<psi_calls, httpVars, worldVars, bulkVars, findVars, fs>>

\* line 56 with no primary URL: nothing is scraped
SkipScrape ==
    /\ ppc = "scrape"
    /\ primary_url = ""
    /\ ppc' = "pagespeed"
    /\ UNCHANGED <<cse_items, primary_url, places, place_details, scraped_pages,
                   internal_links, social_links, social_profiles, li, psi, sources,
                   profile, summary, raisedBy, fetch_failures, assembled>>
    /\ UNCHANGED <<psi_calls, httpVars, worldVars, bulkVars, findVars, fs>>

\* The loop of line 76 moves to its next link, or ends (`over`), and then the
\* social profile stubs are collected (lines 88-94)
LoopStep(over) ==
    /\ ppc' = IF over THEN "pagespeed" ELSE "links"
    /\ li' = IF over THEN li ELSE li + 1
    /\ social_profiles' = IF over THEN SocialProfiles(social_links) ELSE social_profiles

\* lines 78-80, 84-85
LinkScraped(pages, last) ==
    /\ scraped_pages' = pages
    /\ LoopStep(PagesFull(Len(pages)) \/ last)

\* lines 76-85: one iteration of the loop over internal_links[:12]
ScrapeLink ==
    /\ ppc = "links"
    /\ \/ /\ LinkScraped(Append(scraped_pages,
                                ExtractText(LinksToScrape(internal_links)[li], site)),
                         li = Len(LinksToScrape(internal_links)))
          /\ UNCHANGED fetch_failures
       \/ /\ fetch_failures < MaxFailures
          /\ fetch_failures' = fetch_failures + 1
          /\ LoopStep(li = Len(LinksToScrape(internal_links)))
          /\ UNCHANGED scraped_pages
    /\ UNCHANGED <<cse_items, primary_url, places, place_details, internal_links,
                   social_links, psi, sources, profile, summary, raisedBy, assembled>>
    /\ UNCHANGED <<psi_calls, httpVars, worldVars, bulkVars, findVars, fs>>

\* lines 97-118: page-speed for the primary URL, any failure recorded and passed
\* over, then the source bundle is built
Assembled(bundle) ==
    /\ sources' = bundle
    /\ assembled' = bundle

PageSpeedAnswered(answer) ==
    /\ psi' = answer
    /\ Assembled(Assemble(cse_items, primary_url, places, place_details, answer,
                          scraped_pages, social_profiles))

\* line 98: if primary_url
AnyPrimary(primary) == TRUE
HasPrimary(primary) == primary # ""

PageSpeed ==
    /\ ppc = "pagespeed"
    /\ PageSpeedAnswered(IF HasPrimary(primary_url) THEN psi_api ELSE "{}")
    /\ psi_calls' = IF HasPrimary(primary_url) THEN psi_calls + 1 ELSE psi_calls
    /\ ppc' = "synthesize"
    /\ UNCHANGED <<cse_items, primary_url, places, place_details, scraped_pages,
                   internal_links, social_links, social_profiles, li, profile, summary,
                   raisedBy, fetch_failures>>
    /\ UNCHANGED <<httpVars, worldVars, bulkVars, findVars, fs>>

\* line 121: sources['scraped'] and sources['cse'] are the lists scraped_pages
\* and cse_items themselves
Truncated(t) ==
    /\ sources' = t.caller
    /\ scraped_pages' = t.caller.scraped
    /\ cse_items' = t.caller.cse

\* line 121: synthesize_profile returns the profile, or its exception leaves
\* run_pipeline
Synthesized(outcome) ==
    \/ /\ outcome.exc = "none"
       /\ profile' = outcome.value
       /\ ppc' = "persist"
       /\ UNCHANGED raisedBy
    \/ /\ outcome.exc # "none"
       /\ Abort("synthesize_profile")
       /\ UNCHANGED profile

\* lines 120-123: synthesize_profile truncates the bundle it is handed, then asks
\* the language model, under no try; rendering and the training data are derived
\* from its answer
Synthesize ==
    /\ ppc = "synthesize"
    /\ Truncated(TruncateSources(sources))
    /\ Synthesized(SynthesizeProfile(llm))
    /\ UNCHANGED <<primary_url, places, place_details, internal_links, social_links,
                   social_profiles, li, psi, summary, fetch_failures, assembled>>
    /\ UNCHANGED <<psi_calls, httpVars, worldVars, bulkVars, findVars, fs>>

\* lines 125-171: the outputs are written under <out_dir>/<slug>/ and the
\* summary is returned
Persisted(base) ==
    /\ fs' = WriteFiles(fs, base, PipelineFiles(1, sources, profile, primary_url))
    /\ summary' = [outDir |-> base,
                   primaryUrl |-> primary_url,
                   pagesScraped |-> Len(scraped_pages),
                   socialProfilesFound |-> Len(social_profiles),
                   contentFiles |-> Cardinality(RenderMarkdownOutputs(profile))]

Persist ==
    /\ ppc = "persist"
    /\ Persisted(OutputSlug(profile, Query))
    /\ ppc' = "done"
    /\ UNCHANGED <<cse_items, primary_url, places, place_details, scraped_pages,
                   internal_links, social_links, social_profiles, li, psi, sources,
                   profile, raisedBy, fetch_failures, assembled>>
    /\ UNCHANGED <<psi_calls, httpVars, worldVars, bulkVars, findVars>>

PipeNext ==
    \/ Search
    \/ Places
    \/ ScrapePrimary
    \/ SkipScrape
    \/ ScrapeLink
    \/ PageSpeed
    \/ Synthesize
    \/ Persist

(***************************************************************************)
(* bulk.py: run_bulk                                                       *)
(***************************************************************************)
Genre == "dentist"

\* The most businesses find_businesses returns in SpecBulk
MaxFound == 3

\* Nearby businesses: two branches of one chain, one without a name, one more
Businesses ==
    <<[place_id |-> "p1", name |-> "Acme Dental", vicinity |-> "1 Main St"],
      [place_id |-> "p2", name |-> "Acme Dental", vicinity |-> "2 Oak Ave"],
      [place_id |-> "p3", name |-> "", vicinity |-> "3 Elm St"],
      [place_id |-> "p4", name |-> "Bright Smiles", vicinity |-> ""],
      [place_id |-> "p5", name |-> "Care Dental", vicinity |-> "5 Pine Rd"]>>

\* lines 72-74
QueryOf(biz) == (IF biz.name # "" THEN biz.name ELSE Genre) \o " " \o biz.vicinity

\* What the language model answers with in a bulk run
BulkProfiles == {p \in Profiles : p.url = Home}

BulkIdle ==
    /\ bpc = "done"
    /\ found = <<>>
    /\ idx = 1
    /\ res = NoValue
    /\ results = <<>>
    /\ attempted = <<>>
    /\ succeeded = <<>>
    /\ sleeps = 0

\* line 71: the for loop moves to the next business, or ends
NextBusiness ==
    /\ idx' = idx + 1
    /\ bpc' = IF idx + 1 > Len(found) THEN "done" ELSE "pipeline"

\* line 77 when run_pipeline returns: it has written its outputs for the
\* profile the language model answered with
PipelineReturned(query, prof) ==
    /\ fs' = WriteFiles(fs, OutputSlug(prof, query), PipelineFiles(idx, query, prof, Home))
    /\ res' = [outDir |-> OutputSlug(prof, query)]
    /\ succeeded' = Append(succeeded, idx)
    /\ bpc' = "ideas"
    /\ UNCHANGED <<idx, results, sleeps>>

\* lines 103-105 when run_pipeline raises: the failure is printed and the loop
\* continues
PipelineRaised ==
    /\ NextBusiness
    /\ UNCHANGED <<fs, res, succeeded, results, sleeps>>

\* lines 71-77, 103-105: run_pipeline is called for the business at idx
BulkPipeline ==
    /\ bpc = "pipeline"
    /\ attempted' = Append(attempted, idx)
    /\ \/ \E prof \in BulkProfiles : PipelineReturned(QueryOf(found[idx]), prof)
       \/ PipelineRaised
    /\ UNCHANGED found
    /\ UNCHANGED <<httpVars, worldVars, pipeVars, findVars>>

\* lines 93-100: ideas.md and pitches.md, written in this order; a failure of
\* either generation ends the block
IdeasFiles(run, outcome) ==
    CASE outcome = "ok" ->
            ("ideas.md" :> Blob(run, "ideas")) @@ ("pitches.md" :> Blob(run, "pitches"))
      [] outcome = "pitches failed" -> ("ideas.md" :> Blob(run, "ideas"))
      [] OTHER -> <<>>

\* lines 79-90, 102: the entry of the returned list, read back from profile.json
ResultEntry(query, dir, prof) ==
    [query |-> query, outDir |-> dir, name |-> prof.name, website |-> prof.url]

\* lines 93-102: the entry is appended whether or not the ideas were generated
AppendOnlyWithIdeas(list, entry, outcome) ==
    IF outcome = "ok" THEN Append(list, entry) ELSE list
AppendResult(list, entry, outcome) == Append(list, entry)

\* lines 78-102
BulkIdeas ==
    /\ bpc = "ideas"
    /\ \E outcome \in {"ok", "ideas failed", "pitches failed"} :
        /\ fs' = WriteFiles(fs, res.outDir, IdeasFiles(idx, outcome))
        /\ results' = AppendResult(results,
                                   ResultEntry(QueryOf(found[idx]), res.outDir,
                                               fs[res.outDir]["profile.json"].data),
                                   outcome)
    /\ bpc' = "sleep"
    /\ UNCHANGED <<found, idx, res, attempted, succeeded, sleeps>>
    /\ UNCHANGED <<httpVars, worldVars, pipeVars, findVars>>

\* line 106
BulkSleep ==
    /\ bpc = "sleep"
    /\ sleeps' = sleeps + 1
    /\ NextBusiness
    /\ UNCHANGED <<found, res, results, attempted, succeeded, fs>>
    /\ UNCHANGED <<httpVars, worldVars, pipeVars, findVars>>

BulkNext == BulkPipeline \/ BulkIdeas \/ BulkSleep

(***************************************************************************)
(* bulk.py: find_businesses                                                *)
(***************************************************************************)
\* target_count, the most businesses asked for
TargetCount == 3

\* The most nearby-places answers that differ from call to call
MaxFeed == 3

\* line 26
FirstRadius == 5000
\* line 31: radius <= 100000
MaxRadius == 100000
\* line 31: tried_radii < 6
MaxRounds == 6

\* Entries of a nearby-places page: three places, one entry without a
\* place_id key, one whose place_id is empty
PlaceA == [place_id |-> "ChIJ-a", name |-> "Acme Dental"]
PlaceB == [place_id |-> "ChIJ-b", name |-> "Bright Smiles"]
PlaceC == [place_id |-> "ChIJ-c", name |-> "City Dental"]
NoIdEntry == [name |-> "Unlisted"]
EmptyIdEntry == [place_id |-> "", name |-> "Blank"]

\* What places_nearby can answer: data['results'] and data['next_page_token']
NearbyPage(items, token) == [results |-> items, next_page_token |-> token]
NearbyResults ==
    {<<>>, <<PlaceA>>, <<PlaceA, PlaceB>>, <<PlaceA, PlaceB, PlaceC>>,
     <<NoIdEntry, EmptyIdEntry, PlaceC>>}
NearbyPages == {NearbyPage(items, token) : items \in NearbyResults, token \in {"", "tok"}}
\* An empty last page, and an empty page that names a next page
EmptyLastPage == NearbyPage(<<>>, "")
EmptyMorePage == NearbyPage(<<>>, "tok")

\* lines 34-38 and 45-49: the entries carrying a place_id key are appended
\* until target_count entries are held
RECURSIVE AppendItems(_, _, _)
AppendedItem(held, items, i) ==
    IF Len(held) >= TargetCount THEN held ELSE AppendItems(held, items, i + 1)
AppendItems(held, items, i) ==
    IF i > Len(items) THEN held
    ELSE IF "place_id" \in DOMAIN items[i] THEN AppendedItem(Append(held, items[i]), items, i)
    ELSE AppendItems(held, items, i + 1)

\* line 58: b.get('place_id')
PlaceIdOf(b) == IF "place_id" \in DOMAIN b THEN b.place_id ELSE ""

\* line 59: pid not in seen
NeverSeen(pid, seen) == TRUE
NotSeen(pid, seen) == pid \notin seen

\* lines 55-61
RECURSIVE Deduplicate(_, _, _, _)
Deduplicate(held, i, seen, kept) ==
    IF i > Len(held) THEN kept
    ELSE IF PlaceIdOf(held[i]) # "" /\ NotSeen(PlaceIdOf(held[i]), seen)
        THEN Deduplicate(held, i + 1, seen \cup {PlaceIdOf(held[i])}, Append(kept, held[i]))
    ELSE Deduplicate(held, i + 1, seen, kept)

\* line 62: unique[:target_count]
UpToTarget(kept) == SubSeq(kept, 1, Min(TargetCount, Len(kept)))

FindIdle ==
    /\ fpc = "returned"
    /\ geo = "results"
    /\ feed = <<>>
    /\ after = EmptyLastPage
    /\ businesses = <<>>
    /\ radius = FirstRadius
    /\ tried_radii = 0
    /\ pagetoken = ""
    /\ unique = <<>>
    /\ radii = <<>>
    /\ served = <<>>
    /\ naps = 0

\* lines 17-28: the ZIP code is geocoded, under no try
Geocode ==
    /\ fpc = "geocode"
    /\ fpc' = IF geo = "results" THEN "round" ELSE "raised"
    /\ UNCHANGED <<geo, feed, after, businesses, radius, tried_radii, pagetoken, unique,
                   radii, served, naps>>
    /\ UNCHANGED <<httpVars, worldVars, pipeVars, bulkVars, fs>>

\* line 31
KeepSearching == Len(businesses) < TargetCount /\ radius <= MaxRadius /\ tried_radii < MaxRounds

\* One places_nearby call has answered `page` and `held` is the list after its
\* entries were appended: lines 40-41 and 50 go on to the next page, or lines
\* 51-52 end the round
NearbyAnswered(page, held) ==
    /\ businesses' = held
    /\ pagetoken' = page.next_page_token
    /\ served' = served \o page.results
    /\ feed' = IF feed # <<>> THEN Tail(feed) ELSE feed
    /\ IF page.next_page_token # "" /\ Len(held) < TargetCount
          THEN /\ fpc' = "page"
               /\ UNCHANGED <<radius, tried_radii>>
          ELSE /\ fpc' = "round"
               /\ radius' = radius * 2
               /\ tried_radii' = tried_radii + 1

NearbyCalled(page) == NearbyAnswered(page, AppendItems(businesses, page.results, 1))

\* What the next places_nearby call answers
NextPage == IF feed # <<>> THEN Head(feed) ELSE after

\* lines 31-40: a radius round starts with a places_nearby call at this radius
RadiusRound ==
    /\ fpc = "round"
    /\ KeepSearching
    /\ NearbyCalled(NextPage)
    /\ radii' = Append(radii, radius)
    /\ UNCHANGED <<geo, after, unique, naps>>
    /\ UNCHANGED <<httpVars, worldVars, pipeVars, bulkVars, fs>>

\* lines 41-50: one iteration of the loop over the pages of a round
NextPageCall ==
    /\ fpc = "page"
    /\ naps' = (naps + 1) % 2
    /\ NearbyCalled(NextPage)
    /\ UNCHANGED <<geo, after, unique, radii>>
    /\ UNCHANGED <<httpVars, worldVars, pipeVars, bulkVars, fs>>

\* lines 54-62: the loop of line 31 is over
FindReturn ==
    /\ fpc = "round"
    /\ ~KeepSearching
    /\ unique' = UpToTarget(Deduplicate(businesses, 1, {}, <<>>))
    /\ fpc' = "returned"
    /\ UNCHANGED <<geo, feed, after, businesses, radius, tried_radii, pagetoken, radii,
                   served, naps>>
    /\ UNCHANGED <<httpVars, worldVars, pipeVars, bulkVars, fs>>

FindNext == Geocode \/ RadiusRound \/ NextPageCall \/ FindReturn

(***************************************************************************)
(* Specifications                                                          *)
(***************************************************************************)
NoWorld ==
    /\ serp = <<>>
    /\ site = MixedSite
    /\ places_api = "results"
    /\ psi_api = "lighthouseResult"
    /\ llm = JsonContent(DefaultProfile)

\* One call of get_json or get_text
HttpInit ==
    /\ HttpIdle
    /\ FindIdle
    /\ PipeIdle
    /\ BulkIdle
    /\ NoWorld
    /\ fs = <<>>

SpecHttp == HttpInit /\ [][HttpNext]_vars

\* One call of run_pipeline, from the search to the returned summary: any home
\* page behind the primary URL with the other services answering one way, or
\* the mixed home page with the other services answering any way
Init ==
    /\ HttpIdle
    /\ FindIdle
    /\ PipeIdle
    /\ BulkIdle
    /\ fs = <<>>
    /\ \/ /\ serp = SocialThenHome
          /\ site \in ManySites
          /\ places_api = "results"
          /\ psi_api = "lighthouseResult"
          /\ llm = JsonContent(DefaultProfile)
       \/ /\ serp \in PipelineSerps
          /\ site = MixedSite
          /\ places_api \in {"results", "no results", "error"}
          /\ psi_api \in {"lighthouseResult", "error"}
          /\ llm \in Completions

Next == PipeNext

Spec == Init /\ [][Next]_vars

\* The search and the choice of the primary URL, over every search answer
PrimaryInit ==
    /\ HttpIdle
    /\ FindIdle
    /\ PipeIdle
    /\ BulkIdle
    /\ fs = <<>>
    /\ serp \in AllSerps
    /\ site = MixedSite
    /\ places_api = "results"
    /\ psi_api = "lighthouseResult"
    /\ llm = JsonContent(DefaultProfile)

SpecPrimary == PrimaryInit /\ [][Search]_vars

\* One call of run_bulk, from the first found business to the returned list
BulkInit ==
    /\ HttpIdle
    /\ FindIdle
    /\ PipeIdle
    /\ NoWorld
    /\ fs = <<>>
    /\ \E n \in 0..Min(MaxFound, Len(Businesses)) : found = SubSeq(Businesses, 1, n)
    /\ bpc = IF found = <<>> THEN "done" ELSE "pipeline"
    /\ idx = 1
    /\ res = NoValue
    /\ results = <<>>
    /\ attempted = <<>>
    /\ succeeded = <<>>
    /\ sleeps = 0

SpecBulk == BulkInit /\ [][BulkNext]_vars

\* One call of find_businesses: the geocoder fails, or it answers and the
\* nearby-places API answers its first calls with any pages and every later
\* call with the same empty page
FindInit ==
    /\ HttpIdle
    /\ PipeIdle
    /\ BulkIdle
    /\ NoWorld
    /\ fs = <<>>
    /\ fpc = "geocode"
    /\ \/ /\ geo \in {"no results", "error"}
          /\ feed = <<>>
          /\ after = EmptyLastPage
       \/ /\ geo = "results"
          /\ feed \in UNION {SeqsOfLen(NearbyPages, n) : n \in 0..MaxFeed}
          /\ after \in {EmptyLastPage, EmptyMorePage}
    /\ businesses = <<>>
    /\ radius = FirstRadius
    /\ tried_radii = 0
    /\ pagetoken = ""
    /\ unique = <<>>
    /\ radii = <<>>
    /\ served = <<>>
    /\ naps = 0

SpecFind == FindInit /\ [][FindNext]_vars

\* find_businesses keeps running for as long as it has a step to take
SpecFindFair == SpecFind /\ WF_vars(FindNext)

(***************************************************************************)
(* Properties                                                              *)
(***************************************************************************)
\* C1 (Spec).  truncate_sources, and so synthesize_profile, leaves the
\* bundle it is given as it was: at every moment the caller's bundle equals the
\* bundle as assembled, and the sources.json a finished run has written holds
\* the bundle as assembled.
C1_SourcesNotMutated ==
    /\ sources = assembled
    /\ ppc = "done" => fs[summary.outDir]["sources.json"].data = assembled

\* C2 (SpecHttp).  A call answered 503, 503, 503 and then 200 returns the payload
\* of the 200 response on its 4th attempt, and a call answered 404 first makes
\* that one attempt only and raises to the caller.
Is503(r) == r.kind = "response" /\ r.status = 503
Is200(r) == r.kind = "response" /\ r.status = 200
JsonBodies == {"[1]", "[2]"}
PayloadOf(fn, r) ==
    IF fn = "get_text" THEN r.body ELSE IF r.body = "[1]" THEN <<1>> ELSE <<2>>
C2_RetryPolicy ==
    /\ (Len(responses) >= 4
            /\ \A i \in 1..3 : Is503(responses[i])
            /\ Is200(responses[4])
            /\ (hfn = "get_json" => responses[4].body \in JsonBodies))
        => /\ Len(responses) = 4
           /\ attempt_number = 4
           /\ hpc = "returned"
           /\ houtcome = [exc |-> "none", value |-> PayloadOf(hfn, responses[4])]
    /\ (Len(responses) >= 1 /\ responses[1].kind = "response" /\ responses[1].status = 404)
        => /\ Len(responses) = 1
           /\ attempt_number = 1
           /\ hpc = "raised"
           /\ houtcome.exc = "HTTPError"

C2_Witness ==
    /\ hpc = "returned"
    /\ hfn = "get_json"
    /\ Len(responses) = 4
    /\ \A i \in 1..3 : Is503(responses[i])
    /\ houtcome.value = <<2>>

\* C3 (SpecHttp).  A transport-level failure of requests.get is never raised to
\* the caller after a single attempt: it is retried first.
C3_TransportFailureRetried ==
    (hpc = "raised" /\ houtcome.exc \in {"ConnectionError", "Timeout"})
        => attempt_number > 1

\* C4 (Spec).  Never more than 12 scraped pages; no fetch is about to be made
\* once 12 pages are held; and when no fetch failed, scraping ends with
\* min(12, 1 + number of internal links) pages.
C4_PageCap ==
    /\ Len(scraped_pages) <= 12
    /\ ppc = "links" => Len(scraped_pages) < 12
    /\ (ppc \in {"pagespeed", "synthesize", "persist", "done"}
            /\ primary_url # "" /\ fetch_failures = 0)
        => Len(scraped_pages) = Min(12, 1 + Len(internal_links))

C4_Witness ==
    /\ ppc = "done"
    /\ Len(internal_links) = 13
    /\ fetch_failures = 1
    /\ Len(scraped_pages) = 12

\* C5 (Spec).  No two scraped pages of a run have the same url.
C5_OnePagePerUrl ==
    \A i, j \in 1..Len(scraped_pages) :
        i # j => scraped_pages[i].url # scraped_pages[j].url

\* C6 (SpecBulk).  Between two businesses and at the end of the batch, all the
\* files of each slug directory were written by one and the same run.
C6_DirectoryIsOneRun ==
    bpc \in {"pipeline", "done"}
        => \A d \in DOMAIN fs : \A f, g \in DOMAIN fs[d] : fs[d][f].run = fs[d][g].run

\* C7 (SpecPrimary).  The primary URL is the link of the first result whose
\* registrable domain is not a social platform, else the link of the first
\* result, else absent.
OnSocialPlatform(link) == ExtractDomain(link) \in SocialPlatforms
NonSocialResults(items) ==
    {i \in 1..Len(items) : items[i].link # "" /\ ~OnSocialPlatform(items[i].link)}
C7_PrimaryIsFirstNonSocial ==
    ppc = "places"
        => primary_url =
            (IF cse_items = <<>> THEN ""
             ELSE IF NonSocialResults(cse_items) # {}
                THEN cse_items[Least(NonSocialResults(cse_items))].link
             ELSE cse_items[1].link)

\* C8 (Spec).  No failed page fetch ends the run: run_pipeline is never left by
\* an exception of extract_text.
C8_NoScrapeFailureAborts == ~(ppc = "raised" /\ raisedBy = "extract_text")

\* C9 (SpecBulk).  When run_bulk returns, run_pipeline has been called once for
\* each found business, in found order, and the returned list holds one entry
\* for each business run_pipeline returned for, in that order, whatever became
\* of the ideas and pitches.
C9_BatchSurvivesFailures ==
    bpc = "done"
        => /\ attempted = [i \in 1..Len(found) |-> i]
           /\ [i \in 1..Len(results) |-> results[i].query]
                = [i \in 1..Len(succeeded) |-> QueryOf(found[succeeded[i]])]

C9_Witness ==
    /\ bpc = "done"
    /\ Len(found) = 3
    /\ succeeded = <<1, 3>>
    /\ Len(results) = 2
    /\ "ideas.md" \notin DOMAIN fs[results[2].outDir]

\* C10 (SpecBulk).  Before each next business, and at the end, one
\* time.sleep(1) has been made for each business attempted so far.
C10_SleepAfterEachBusiness ==
    bpc \in {"pipeline", "done"} => sleeps = Len(attempted)

\* C11 (Spec).  When the language model's content is empty or is not JSON,
\* synthesize_profile raises nothing and the profile it returns is empty.
C11_EmptyProfileOnBadContent ==
    llm \in {EmptyContent, ProseContent} =>
        /\ ~(ppc = "raised" /\ raisedBy = "synthesize_profile")
        /\ ppc \in {"persist", "done"} => profile = EmptyProfile

\* The place ids of a list of entries
PlaceIds(list) == [i \in 1..Len(list) |-> PlaceIdOf(list[i])]
\* Where a place id was first served by the API
FirstServed(pid) == Least({i \in 1..Len(served) : PlaceIdOf(served[i]) = pid})

\* C12 (SpecFind).  The list find_businesses returns holds each place id at
\* most once, only entries carrying a place id, in the order their ids were
\* first served, and at most target_count entries.
C12_UniqueCappedInOrder ==
    fpc = "returned" =>
        /\ \A i, j \in 1..Len(unique) : i # j => PlaceIdOf(unique[i]) # PlaceIdOf(unique[j])
        /\ \A i \in 1..Len(unique) : "place_id" \in DOMAIN unique[i] /\ unique[i].place_id # ""
        /\ \A i, j \in 1..Len(unique) :
              i < j => FirstServed(PlaceIdOf(unique[i])) < FirstServed(PlaceIdOf(unique[j]))
        /\ Len(unique) <= TargetCount

\* a place served on two pages of one round and again in the next round, next
\* to entries without an id, is returned once
C12_Witness ==
    /\ fpc = "returned"
    /\ Len(radii) >= 2
    /\ Len(served) > Len(businesses)
    /\ PlaceIds(businesses) = <<"ChIJ-a", "ChIJ-a", "">>
    /\ PlaceIds(unique) = <<"ChIJ-a">>

\* C15 (SpecFindFair).  find_businesses always ends, by returning or raising,
\* whatever the nearby-places API answers, and it never runs more than 6 radius
\* rounds, at 5 km doubling, none above 100 km.
C15_AlwaysTerminates ==
    /\ <>(fpc \in {"returned", "raised"})
    /\ [](/\ Len(radii) <= MaxRounds
          /\ \A i \in 1..Len(radii) : radii[i] <= MaxRadius /\ radii[i] = FirstRadius * 2^(i - 1))

\* C16 (SpecFind).  When find_businesses returns fewer than target_count
\* businesses, no further radius round was allowed.
C16_FewerOnlyWhenExhausted ==
    (fpc = "returned" /\ Len(unique) < TargetCount) =>
        ~(radius <= MaxRadius /\ tried_radii < MaxRounds)

\* C13 (Spec).  The @id written to jsonld/organization.jsonld is the profile's
\* organization URL, trailing slash stripped, plus '#organization' when the
\* profile has one, and else the primary URL, trailing slash stripped, plus
\* '#organization', with or without a primary URL.
C13_GraphIdFromOrgUrl ==
    ppc = "done" =>
        fs[summary.outDir]["jsonld/organization.jsonld"].data =
            (IF profile.url # "" THEN RStripSlash(profile.url) ELSE RStripSlash(primary_url))
                \o "#organization"

\* The search answered with no result
NoSearchResult == serp = <<>> /\ ppc # "search" /\ raisedBy # "search"
\* run_pipeline is past the page-speed step
PastPageSpeed ==
    ppc \in {"synthesize", "persist", "done"} \/ (ppc = "raised" /\ raisedBy = "synthesize_profile")

====
